---------------------------- MODULE Spec2Model ----------------------------
(***************************************************************************)
(* The expression language of SWP-Go-Examples.go (lines 280-507): the AST  *)
(* (Exp and its six cases), the tagged result Val, the printer pretty and  *)
(* the evaluator eval.                                                     *)
(*                                                                         *)
(* A Go string is modelled as a sequence of one-character strings, a Go    *)
(* int as an integer of IntBits bits in two's complement, and the nil      *)
(* interface value of type Exp as the node Nil.  A call that does not      *)
(* return because the runtime panics yields a panic marker.                *)
(***************************************************************************)
EXTENDS Integers, Sequences, FiniteSets, TLC

\* Width of the Go type int (64 on the usual targets), scaled down so that
\* the whole range, and with it every wrap-around, can be enumerated.
IntBits == 5

\* Largest number of binary nodes of a tree handed to pretty or eval.
MaxNodes == 2

\* Largest number of binary nodes of the two trees of a printed pair together.
MaxPairNodes == 2

VARIABLES
    ast,    \* the Exp the caller built
    ast2,   \* a second Exp of the caller (only printed)
    pc,     \* where the caller is: "built", then "printed", "evaluated" or
            \* "panicked"; "running" while eval is executed statement by statement
    out,    \* what ast.pretty() returned (<<>> before the call)
    out2,   \* what ast2.pretty() returned (<<>> before the call)
    val,    \* what ast.eval() returned (NoVal before the call)
    stack,  \* the call stack of a running eval, innermost frame last
    trace   \* the eval calls entered and left so far, in order

vars == <<ast, ast2, pc, out, out2, val, stack, trace>>

---------------------------------------------------------------------------
(* The Go type int *)

MinInt == -(2 ^ (IntBits - 1))
MaxInt == 2 ^ (IntBits - 1) - 1
GoInt == MinInt .. MaxInt

\* The value an int expression has when its exact result is x: Go's + and *
\* on int wrap around in two's complement.
WrapInt(x) == ((x - MinInt) % (2 ^ IntBits)) + MinInt

---------------------------------------------------------------------------
(* Values *)

ValueInt == 0
ValueBool == 1
Undefined == 2

mkInt(x) == [flag |-> ValueInt, valI |-> x, valB |-> FALSE]
mkBool(x) == [flag |-> ValueBool, valI |-> 0, valB |-> x]
\* Mutant: the undefined result carries a tag that is none of the three kinds.
mkUndefinedBadKind == [flag |-> Undefined + 1, valI |-> 0, valB |-> FALSE]

mkUndefined == [flag |-> Undefined, valI |-> 0, valB |-> FALSE]

\* The Val struct: any combination of the three fields.
Val == [flag : {ValueInt, ValueBool, Undefined}, valI : GoInt, valB : BOOLEAN]

---------------------------------------------------------------------------
(* Cases of Exp.  A binary node is the array [2]Exp; e[0] and e[1] of the   *)
(* source are e.e[1] and e.e[2] here.                                       *)

Bool(x) == [kind |-> "Bool", b |-> x]
Num(x) == [kind |-> "Num", i |-> x]
Mult(a) == [kind |-> "Mult", e |-> a]
Plus(a) == [kind |-> "Plus", e |-> a]
And(a) == [kind |-> "And", e |-> a]
Or(a) == [kind |-> "Or", e |-> a]

\* The zero value of the interface type Exp.
Nil == [kind |-> "Nil"]

BinaryKinds == {"Mult", "Plus", "And", "Or"}

IsBinary(x) == x.kind \in BinaryKinds

---------------------------------------------------------------------------
(* Outcomes of a call that does not return *)

\* pretty: the runtime panicked (method call on a nil Exp).
PrettyPanic == <<"panic">>

\* eval: the runtime panicked (method call on a nil Exp).
EvalPanic == [panic |-> TRUE]

\* eval has not been called.
NoVal == [none |-> TRUE]

---------------------------------------------------------------------------
(* pretty print *)

Digit(d) == <<"0", "1", "2", "3", "4", "5", "6", "7", "8", "9">>[d + 1]

RECURSIVE FormatUint(_)
FormatUint(u) ==
    IF u < 10 THEN <<Digit(u)>>
    ELSE FormatUint(u \div 10) \o <<Digit(u % 10)>>

\* strconv.Itoa: base 10, a leading "-" for a negative number.
Itoa(i) == IF i < 0 THEN <<"-">> \o FormatUint(-i) ELSE FormatUint(i)

RECURSIVE pretty(_)

BoolPretty(x) ==
    IF x.b THEN <<"t", "r", "u", "e">>
    ELSE <<"f", "a", "l", "s", "e">>

NumPretty(x) == Itoa(x.i)

\* The body shared by the four binary printers, which differ in tok only:
\* x = "("; x += e[0].pretty(); x += tok; x += e[1].pretty(); x += ")".
\* A panic in a child's pretty leaves the function at once.
BinaryPretty(e, tok) ==
    LET x0 == <<"(">>
        p1 == pretty(e.e[1])
    IN  IF p1 = PrettyPanic THEN PrettyPanic
        ELSE LET x1 == x0 \o p1
                 x2 == x1 \o tok
                 p2 == pretty(e.e[2])
             IN  IF p2 = PrettyPanic THEN PrettyPanic
                 ELSE LET x3 == x2 \o p2
                          x4 == x3 \o <<")">>
                      IN  x4

\* Mutant: Mult prints the token of Plus.
MultPrettyPlusToken(e) == BinaryPretty(e, <<"+">>)

MultPretty(e) == BinaryPretty(e, <<"*">>)

PlusPretty(e) == BinaryPretty(e, <<"+">>)

\* Mutant: And prints a single ampersand.
AndPrettySingleAmpersand(e) == BinaryPretty(e, <<"&">>)

AndPretty(e) == BinaryPretty(e, <<"&", "&">>)

OrPretty(e) == BinaryPretty(e, <<"|", "|">>)

\* x.pretty(): dispatch on the dynamic type of the interface value.
pretty(x) ==
    CASE x.kind = "Nil" -> PrettyPanic
      [] x.kind = "Bool" -> BoolPretty(x)
      [] x.kind = "Num" -> NumPretty(x)
      [] x.kind = "Mult" -> MultPretty(x)
      [] x.kind = "Plus" -> PlusPretty(x)
      [] x.kind = "And" -> AndPretty(x)
      [] x.kind = "Or" -> OrPretty(x)

---------------------------------------------------------------------------
(* Evaluator *)

RECURSIVE eval(_)

BoolEval(x) == mkBool(x.b)

NumEval(x) == mkInt(x.i)

\* Mutant: Mult adds.
MultBodyAdds(n1, n2) ==
    IF n1.flag = ValueInt /\ n2.flag = ValueInt
    THEN mkInt(WrapInt(n1.valI + n2.valI))
    ELSE mkUndefined

\* Mutant: on a mismatch Mult returns n1 retagged, its payload left in place.
MultBodyKeepsPayload(n1, n2) ==
    IF n1.flag = ValueInt /\ n2.flag = ValueInt
    THEN mkInt(WrapInt(n1.valI * n2.valI))
    ELSE [n1 EXCEPT !.flag = Undefined]

\* The statements of Mult.eval after its two calls.
MultBody(n1, n2) ==
    IF n1.flag = ValueInt /\ n2.flag = ValueInt
    THEN mkInt(WrapInt(n1.valI * n2.valI))
    ELSE mkUndefined

\* Mutant: Plus is content with one integer operand.
PlusBodyEitherInt(n1, n2) ==
    IF n1.flag = ValueInt \/ n2.flag = ValueInt
    THEN mkInt(WrapInt(n1.valI + n2.valI))
    ELSE mkUndefined

\* The statements of Plus.eval after its two calls.
PlusBody(n1, n2) ==
    IF n1.flag = ValueInt /\ n2.flag = ValueInt
    THEN mkInt(WrapInt(n1.valI + n2.valI))
    ELSE mkUndefined

\* Mutant: And without its first case, so a false left operand masks nothing.
AndBodyNoMask(b1, b2) ==
    IF b1.flag = ValueBool /\ b2.flag = ValueBool
    THEN mkBool(b1.valB /\ b2.valB)
    ELSE mkUndefined

\* The switch of And.eval after its two calls.
AndBody(b1, b2) ==
    CASE b1.flag = ValueBool /\ b1.valB = FALSE -> mkBool(FALSE)
      [] ~(b1.flag = ValueBool /\ b1.valB = FALSE)
         /\ b1.flag = ValueBool /\ b2.flag = ValueBool -> mkBool(b1.valB /\ b2.valB)
      [] OTHER -> mkUndefined

\* Mutant: Or without its first case, so a true left operand masks nothing.
OrBodyNoMask(b1, b2) ==
    IF b1.flag = ValueBool /\ b2.flag = ValueBool
    THEN mkBool(b1.valB \/ b2.valB)
    ELSE mkUndefined

\* Mutant: the second case of Or tests the right operand for the wrong tag.
OrBodyWrongTag(b1, b2) ==
    CASE b1.flag = ValueBool /\ b1.valB = TRUE -> mkBool(TRUE)
      [] ~(b1.flag = ValueBool /\ b1.valB = TRUE)
         /\ b1.flag = ValueBool /\ b2.flag = ValueInt -> mkBool(b1.valB \/ b2.valB)
      [] OTHER -> mkUndefined

\* The switch of Or.eval after its two calls.
OrBody(b1, b2) ==
    CASE b1.flag = ValueBool /\ b1.valB = TRUE -> mkBool(TRUE)
      [] ~(b1.flag = ValueBool /\ b1.valB = TRUE)
         /\ b1.flag = ValueBool /\ b2.flag = ValueBool -> mkBool(b1.valB \/ b2.valB)
      [] OTHER -> mkUndefined

\* The statements of the eval method of a binary node after its two calls.
Body(kind, n1, n2) ==
    CASE kind = "Mult" -> MultBody(n1, n2)
      [] kind = "Plus" -> PlusBody(n1, n2)
      [] kind = "And" -> AndBody(n1, n2)
      [] kind = "Or" -> OrBody(n1, n2)

\* n1 := e[0].eval(); n2 := e[1].eval(); then the body.  A panic in a
\* child's eval leaves the function at once.
MultEval(e) ==
    LET n1 == eval(e.e[1])
    IN  IF n1 = EvalPanic THEN EvalPanic
        ELSE LET n2 == eval(e.e[2])
             IN  IF n2 = EvalPanic THEN EvalPanic ELSE MultBody(n1, n2)

PlusEval(e) ==
    LET n1 == eval(e.e[1])
    IN  IF n1 = EvalPanic THEN EvalPanic
        ELSE LET n2 == eval(e.e[2])
             IN  IF n2 = EvalPanic THEN EvalPanic ELSE PlusBody(n1, n2)

AndEval(e) ==
    LET b1 == eval(e.e[1])
    IN  IF b1 = EvalPanic THEN EvalPanic
        ELSE LET b2 == eval(e.e[2])
             IN  IF b2 = EvalPanic THEN EvalPanic ELSE AndBody(b1, b2)

OrEval(e) ==
    LET b1 == eval(e.e[1])
    IN  IF b1 = EvalPanic THEN EvalPanic
        ELSE LET b2 == eval(e.e[2])
             IN  IF b2 = EvalPanic THEN EvalPanic ELSE OrBody(b1, b2)

\* x.eval(): dispatch on the dynamic type of the interface value.
eval(x) ==
    CASE x.kind = "Nil" -> EvalPanic
      [] x.kind = "Bool" -> BoolEval(x)
      [] x.kind = "Num" -> NumEval(x)
      [] x.kind = "Mult" -> MultEval(x)
      [] x.kind = "Plus" -> PlusEval(x)
      [] x.kind = "And" -> AndEval(x)
      [] x.kind = "Or" -> OrEval(x)

---------------------------------------------------------------------------
(* Helper functions to build ASTs by hand *)

number(x) == Num(x)

boolean(x) == Bool(x)

plus(x, y) == Plus(<<x, y>>)

mult(x, y) == Mult(<<x, y>>)

and(x, y) == And(<<x, y>>)

or(x, y) == Or(<<x, y>>)

\* The call of the helper that builds a node of the given kind.
Build(kind, x, y) ==
    CASE kind = "Mult" -> mult(x, y)
      [] kind = "Plus" -> plus(x, y)
      [] kind = "And" -> and(x, y)
      [] kind = "Or" -> or(x, y)

\* The trees a caller builds with n calls of plus, mult, and, or over the
\* leaves in L.
RECURSIVE TreesOfSize(_, _)
TreesOfSize(L, n) ==
    IF n = 0 THEN L
    ELSE UNION { { Build(k, x, y) : k \in BinaryKinds,
                                    x \in TreesOfSize(L, i),
                                    y \in TreesOfSize(L, n - 1 - i) }
                 : i \in 0 .. (n - 1) }

RECURSIVE Nodes(_)
Nodes(x) == IF IsBinary(x) THEN 1 + Nodes(x.e[1]) + Nodes(x.e[2]) ELSE 0

\* x is built with n calls of plus, mult, and, or over the leaves T[0];
\* T[i] holds the trees built with i calls, for every i < n.
HasSize(T, n, x) ==
    IF n = 0 THEN x \in T[0]
    ELSE \E i \in 0 .. (n - 1) : \E k \in BinaryKinds :
            \E a \in T[i] : \E b \in T[n - 1 - i] : x = Build(k, a, b)

---------------------------------------------------------------------------
(* A caller that builds one tree and calls pretty or eval on it *)

\* The leaves of the trees that are printed and evaluated.
Leaves ==
    { number(0), number(1), number(2), number(MinInt),
      boolean(TRUE), boolean(FALSE), Nil }

TreeTable == [n \in 0 .. (MaxNodes - 1) |-> TreesOfSize(Leaves, n)]

\* The parts of the state a specification does not use.
NoPair == ast2 = Nil /\ out2 = <<>>

NoSteps == stack = <<>> /\ trace = <<>>

NotCalled == pc = "built" /\ out = <<>> /\ val = NoVal

\* ast is what one of the six helpers returned: nil occurs as a subtree only.
Init ==
    /\ \E n \in 0 .. MaxNodes : HasSize(TreeTable, n, ast)
    /\ ast # Nil
    /\ NotCalled
    /\ NoPair
    /\ NoSteps

CallPretty ==
    /\ pc = "built"
    /\ out' = pretty(ast)
    /\ pc' = IF pretty(ast) = PrettyPanic THEN "panicked" ELSE "printed"
    /\ UNCHANGED <<ast, ast2, out2, val, stack, trace>>

CallEval ==
    /\ pc = "built"
    /\ val' = eval(ast)
    /\ pc' = IF eval(ast) = EvalPanic THEN "panicked" ELSE "evaluated"
    /\ UNCHANGED <<ast, ast2, out, out2, stack, trace>>

Next == CallPretty \/ CallEval

Spec == Init /\ [][Next]_vars

---------------------------------------------------------------------------
(* A caller that applies Plus or Mult to two integer literals *)

InitArith ==
    /\ \E k \in {"Plus", "Mult"} : \E a \in GoInt : \E b \in GoInt :
          ast = Build(k, number(a), number(b))
    /\ NotCalled
    /\ NoPair
    /\ NoSteps

SpecArith == InitArith /\ [][Next]_vars

---------------------------------------------------------------------------
(* A caller that builds two trees and prints both *)

PairLeaves == { number(1), number(-1), number(11), boolean(TRUE) }

PairTable == [n \in 0 .. (MaxPairNodes - 1) |-> TreesOfSize(PairLeaves, n)]

InitPair ==
    /\ \E n \in 0 .. MaxPairNodes : \E m \in 0 .. (MaxPairNodes - n) :
          /\ HasSize(PairTable, n, ast)
          /\ HasSize(PairTable, m, ast2)
    /\ NotCalled
    /\ out2 = <<>>
    /\ NoSteps

CallPrettyBoth ==
    /\ pc = "built"
    /\ out' = pretty(ast)
    /\ out2' = pretty(ast2)
    /\ pc' = IF PrettyPanic \in {pretty(ast), pretty(ast2)}
             THEN "panicked" ELSE "printed"
    /\ UNCHANGED <<ast, ast2, val, stack, trace>>

NextPair == CallPrettyBoth

SpecPair == InitPair /\ [][NextPair]_vars

---------------------------------------------------------------------------
(* One call of eval, statement by statement.  A frame is one activation of *)
(* an eval method: its receiver, the receiver's place in ast (0: first     *)
(* child, 1: second child), the statement it has reached and its locals.   *)
(*   at = "entry" : nothing executed yet                                   *)
(*   at = "left"  : inside  n1 := e[0].eval()                              *)
(*   at = "mid"   : n1 assigned, n2 := e[1].eval() not yet called          *)
(*   at = "right" : inside  n2 := e[1].eval()                              *)
(*   at = "body"  : n1 and n2 assigned, the if or switch not yet executed  *)

Frame(x, path) == [node |-> x, path |-> path, at |-> "entry", n1 |-> NoVal, n2 |-> NoVal]

Top == stack[Len(stack)]

\* The caller's frames with the innermost one moved to statement at.
Moved(at) == [stack EXCEPT ![Len(stack)].at = at]

\* The call x.eval() from the frames callers: a nil receiver panics, and with
\* no recover in the program the panic ends the run; any other receiver
\* gets a frame.
Invoke(x, path, callers) ==
    IF x = Nil
    THEN /\ pc' = "panicked"
         /\ val' = EvalPanic
         /\ stack' = <<>>
         /\ UNCHANGED trace
    ELSE /\ pc' = "running"
         /\ stack' = Append(callers, Frame(x, path))
         /\ trace' = Append(trace, <<"call", path>>)
         /\ UNCHANGED val

\* return v from the innermost frame: the caller assigns it to n1 or n2, and
\* the outermost call hands it to the caller of eval.
Return(v) ==
    /\ trace' = Append(trace, <<"return", Top.path>>)
    /\ IF Len(stack) = 1
       THEN /\ stack' = <<>>
            /\ val' = v
            /\ pc' = "evaluated"
       ELSE LET caller == stack[Len(stack) - 1]
                resumed == IF caller.at = "left"
                           THEN [caller EXCEPT !.n1 = v, !.at = "mid"]
                           ELSE [caller EXCEPT !.n2 = v, !.at = "body"]
            IN  /\ stack' = Append(SubSeq(stack, 1, Len(stack) - 2), resumed)
                /\ UNCHANGED <<val, pc>>

StartEval ==
    /\ pc = "built"
    /\ Invoke(ast, <<>>, <<>>)
    /\ UNCHANGED <<ast, ast2, out, out2>>

\* Bool.eval and Num.eval: a single return statement.
EvalLeaf ==
    /\ pc = "running"
    /\ Top.node.kind \in {"Bool", "Num"}
    /\ Return(IF Top.node.kind = "Bool" THEN BoolEval(Top.node) ELSE NumEval(Top.node))
    /\ UNCHANGED <<ast, ast2, out, out2>>

\* n1 := e[0].eval()
CallLeft ==
    /\ pc = "running"
    /\ IsBinary(Top.node)
    /\ Top.at = "entry"
    /\ Invoke(Top.node.e[1], Top.path \o <<0>>, Moved("left"))
    /\ UNCHANGED <<ast, ast2, out, out2>>

\* Mutant: a lazy && and ||, which return once the left operand decides.
CallRightShortCircuit ==
    /\ pc = "running"
    /\ IsBinary(Top.node)
    /\ Top.at = "mid"
    /\ IF \/ Top.node.kind = "And" /\ Top.n1 = mkBool(FALSE)
          \/ Top.node.kind = "Or" /\ Top.n1 = mkBool(TRUE)
       THEN Return(Top.n1)
       ELSE Invoke(Top.node.e[2], Top.path \o <<1>>, Moved("right"))
    /\ UNCHANGED <<ast, ast2, out, out2>>

\* n2 := e[1].eval()
CallRight ==
    /\ pc = "running"
    /\ IsBinary(Top.node)
    /\ Top.at = "mid"
    /\ Invoke(Top.node.e[2], Top.path \o <<1>>, Moved("right"))
    /\ UNCHANGED <<ast, ast2, out, out2>>

\* The if or switch of a binary node, and its return.
RunBody ==
    /\ pc = "running"
    /\ IsBinary(Top.node)
    /\ Top.at = "body"
    /\ Return(Body(Top.node.kind, Top.n1, Top.n2))
    /\ UNCHANGED <<ast, ast2, out, out2>>

StepLeaves == { number(1), boolean(TRUE), boolean(FALSE), Nil }

StepTable == [n \in 0 .. (MaxNodes - 1) |-> TreesOfSize(StepLeaves, n)]

InitStep ==
    /\ \E n \in 0 .. MaxNodes : HasSize(StepTable, n, ast)
    /\ ast # Nil
    /\ NotCalled
    /\ NoPair
    /\ NoSteps

NextStep == StartEval \/ EvalLeaf \/ CallLeft \/ CallRight \/ RunBody

SpecStep == InitStep /\ [][NextStep]_vars

\* The statement-by-statement run and the method eval agree on the outcome.
StepsAgreeWithEval == pc \in {"evaluated", "panicked"} => val = eval(ast)

---------------------------------------------------------------------------
(* The results of the specification: IntVal(i), BoolVal(b), UndefinedVal   *)
(* are a tag and the payload of that tag.                                  *)

IsIntVal(v) == v.flag = ValueInt

IsBoolVal(v) == v.flag = ValueBool

IsUndefinedVal(v) == v.flag = Undefined

IsBoolValOf(v, b) == IsBoolVal(v) /\ v.valB = b

\* The results of the two children of the evaluated binary node ast.
LeftVal == eval(ast.e[1])

RightVal == eval(ast.e[2])

RECURSIVE HasNil(_)
HasNil(x) ==
    \/ x = Nil
    \/ IsBinary(x) /\ (HasNil(x.e[1]) \/ HasNil(x.e[2]))

---------------------------------------------------------------------------
(* C1: eval(And(l,r)) is BoolVal(false) when eval(l) is BoolVal(false),    *)
(* whatever eval(r) is; otherwise BoolVal(vl && vr) when both results are  *)
(* BoolVal; otherwise UndefinedVal.                                        *)
C1_AndRule ==
    (pc = "evaluated" /\ ast.kind = "And") =>
        IF IsBoolValOf(LeftVal, FALSE) THEN IsBoolValOf(val, FALSE)
        ELSE IF IsBoolVal(LeftVal) /\ IsBoolVal(RightVal)
             THEN IsBoolValOf(val, LeftVal.valB /\ RightVal.valB)
             ELSE IsUndefinedVal(val)

\* A false left operand has masked an undefined right operand.
C1_Witness ==
    /\ pc = "evaluated"
    /\ ast = and(boolean(FALSE), plus(boolean(TRUE), number(1)))
    /\ IsUndefinedVal(RightVal)
    /\ IsBoolValOf(val, FALSE)

(* C2: eval(Or(l,r)) is BoolVal(true) when eval(l) is BoolVal(true),       *)
(* whatever eval(r) is; otherwise BoolVal(vl || vr) when both results are  *)
(* BoolVal; otherwise UndefinedVal.                                        *)
C2_OrRule ==
    (pc = "evaluated" /\ ast.kind = "Or") =>
        IF IsBoolValOf(LeftVal, TRUE) THEN IsBoolValOf(val, TRUE)
        ELSE IF IsBoolVal(LeftVal) /\ IsBoolVal(RightVal)
             THEN IsBoolValOf(val, LeftVal.valB \/ RightVal.valB)
             ELSE IsUndefinedVal(val)

\* A true left operand has masked an undefined right operand.
C2_Witness ==
    /\ pc = "evaluated"
    /\ ast = or(boolean(TRUE), mult(number(1), boolean(FALSE)))
    /\ IsUndefinedVal(RightVal)
    /\ IsBoolValOf(val, TRUE)

(* C3: eval(Plus(l,r)) and eval(Mult(l,r)) are an IntVal exactly when      *)
(* eval(l) and eval(r) are both IntVal, and UndefinedVal in every other    *)
(* case: an undefined child is never masked.                               *)
C3_ArithmeticPropagation ==
    (pc = "evaluated" /\ ast.kind \in {"Plus", "Mult"}) =>
        /\ IsIntVal(val) <=> (IsIntVal(LeftVal) /\ IsIntVal(RightVal))
        /\ ~IsIntVal(val) => IsUndefinedVal(val)

\* An undefined right child has made a Plus node undefined.
C3_Witness ==
    /\ pc = "evaluated"
    /\ ast = plus(number(0), and(boolean(TRUE), number(1)))
    /\ IsIntVal(LeftVal)
    /\ IsUndefinedVal(RightVal)
    /\ IsUndefinedVal(val)

---------------------------------------------------------------------------
RECURSIVE IntTyped(_), BoolTyped(_)

\* A Num, or a Plus or Mult of two int-typed children.
IntTyped(x) ==
    \/ x.kind = "Num"
    \/ x.kind \in {"Plus", "Mult"} /\ IntTyped(x.e[1]) /\ IntTyped(x.e[2])

\* A Bool, or an And or Or of two bool-typed children.
BoolTyped(x) ==
    \/ x.kind = "Bool"
    \/ x.kind \in {"And", "Or"} /\ BoolTyped(x.e[1]) /\ BoolTyped(x.e[2])

(* C9: an int-typed tree evaluates to an IntVal and a bool-typed tree to   *)
(* a BoolVal; and for any tree a Plus or Mult root never yields a BoolVal  *)
(* and an And or Or root never yields an IntVal.                           *)
C9_TypeSoundness ==
    /\ IntTyped(ast) => pc # "panicked"
    /\ BoolTyped(ast) => pc # "panicked"
    /\ pc = "evaluated" =>
        /\ IntTyped(ast) => IsIntVal(val)
        /\ BoolTyped(ast) => IsBoolVal(val)
        /\ ast.kind \in {"Plus", "Mult"} => ~IsBoolVal(val)
        /\ ast.kind \in {"And", "Or"} => ~IsIntVal(val)

\* A bool-typed tree with nested nodes has been evaluated to a BoolVal.
C9_Witness ==
    /\ pc = "evaluated"
    /\ ast = or(and(boolean(TRUE), boolean(FALSE)), boolean(FALSE))
    /\ BoolTyped(ast)
    /\ IsBoolValOf(val, FALSE)

(* C10: every Val eval returns has the payload fields its tag does not use *)
(* at their zero value: valB = false under ValueInt, valI = 0 under        *)
(* ValueBool, both under Undefined.                                        *)
C10_CanonicalVal ==
    pc = "evaluated" =>
        /\ val.flag = ValueInt => val.valB = FALSE
        /\ val.flag = ValueBool => val.valI = 0
        /\ val.flag = Undefined => val.valI = 0 /\ val.valB = FALSE

\* A Mult of a nonzero integer and a boolean has returned the zero-payload
\* undefined value.
C10_Witness ==
    /\ pc = "evaluated"
    /\ ast = mult(number(2), boolean(TRUE))
    /\ val = [flag |-> Undefined, valI |-> 0, valB |-> FALSE]

---------------------------------------------------------------------------
\* The exact integer Plus or Mult of the two literals of ast stands for.
ExactResult ==
    IF ast.kind = "Plus" THEN ast.e[1].i + ast.e[2].i ELSE ast.e[1].i * ast.e[2].i

(* C5 as stated: for all integers a and b, eval(Plus(Num(a),Num(b))) is    *)
(* IntVal(a+b) and eval(Mult(Num(a),Num(b))) is IntVal(a*b), the integer   *)
(* sum and product.                                                        *)
C5_ExactArithmetic ==
    pc = "evaluated" => IsIntVal(val) /\ val.valI = ExactResult

(* C5 as amended: the result is the IntVal of the sum or product reduced   *)
(* into the range of int modulo 2^IntBits: an int congruent to the exact   *)
(* result, and the exact result itself whenever that is an int.            *)
C5_WrappedArithmetic ==
    pc = "evaluated" =>
        /\ IsIntVal(val)
        /\ val.valI \in GoInt
        /\ (val.valI - ExactResult) % (2 ^ IntBits) = 0
        /\ ExactResult \in GoInt => val.valI = ExactResult

\* A product beyond the largest int has wrapped around.
C5_Witness ==
    /\ pc = "evaluated"
    /\ ast = mult(number(MaxInt), number(2))
    /\ ExactResult > MaxInt
    /\ val.valI = -2

---------------------------------------------------------------------------
\* The decimal numeral of i, most significant digit first.
RefDigits(m) ==
    LET n == CHOOSE k \in 1 .. IntBits : m < 10 ^ k /\ (k = 1 \/ m >= 10 ^ (k - 1))
        ch(d) == CASE d = 0 -> "0" [] d = 1 -> "1" [] d = 2 -> "2" [] d = 3 -> "3"
                   [] d = 4 -> "4" [] d = 5 -> "5" [] d = 6 -> "6" [] d = 7 -> "7"
                   [] d = 8 -> "8" [] d = 9 -> "9"
    IN  [k \in 1 .. n |-> ch((m \div (10 ^ (n - k))) % 10)]

RefDecimal(i) == IF i < 0 THEN <<"-">> \o RefDigits(-i) ELSE RefDigits(i)

RefToken(kind) ==
    CASE kind = "Plus" -> <<"+">>
      [] kind = "Mult" -> <<"*">>
      [] kind = "And" -> <<"&", "&">>
      [] kind = "Or" -> <<"|", "|">>

\* The structural reference of the printer.
RECURSIVE RefPretty(_)
RefPretty(x) ==
    CASE x.kind = "Num" -> RefDecimal(x.i)
      [] x.kind = "Bool" -> IF x.b THEN <<"t", "r", "u", "e">> ELSE <<"f", "a", "l", "s", "e">>
      [] OTHER -> <<"(">> \o RefPretty(x.e[1]) \o RefToken(x.kind)
                          \o RefPretty(x.e[2]) \o <<")">>

\* How often the character c occurs in the string str.
Count(str, c) == Cardinality({ k \in 1 .. Len(str) : str[k] = c })

\* How many operator tokens + * && || the string str holds.
Tokens(str) ==
    Count(str, "+") + Count(str, "*") + (Count(str, "&") + Count(str, "|")) \div 2

(* C6: pretty returns for every tree of the six node kinds, and what it    *)
(* returns is the structural reference: the decimal numeral of a Num,      *)
(* "true" or "false" for a Bool, "(" left token right ")" for a binary     *)
(* node; so the output holds one parenthesis pair and one operator token   *)
(* per binary node.                                                        *)
C6_PrettyReference ==
    /\ (pc = "panicked" /\ out = PrettyPanic) => HasNil(ast)
    /\ pc = "printed" =>
        /\ out = RefPretty(ast)
        /\ Count(out, "(") = Nodes(ast)
        /\ Count(out, ")") = Nodes(ast)
        /\ Tokens(out) = Nodes(ast)

\* Plus(Mult(Num 1, Num 2), Num 0) has been printed as "((1*2)+0)".
C6_Witness ==
    /\ pc = "printed"
    /\ ast = plus(mult(number(1), number(2)), number(0))
    /\ out = <<"(", "(", "1", "*", "2", ")", "+", "0", ")">>

---------------------------------------------------------------------------
---------------------------------------------------------------------------
\* Every node of the tree x, whose place is path: the calls of eval and the
\* returns from it in the order of a run that evaluates the left child, then
\* the right child, then the node itself.
RECURSIVE Events(_, _)
Events(x, path) ==
    IF IsBinary(x)
    THEN <<<<"call", path>>>> \o Events(x.e[1], path \o <<0>>)
            \o Events(x.e[2], path \o <<1>>) \o <<<<"return", path>>>>
    ELSE IF x = Nil THEN <<>>
    ELSE <<<<"call", path>>, <<"return", path>>>>

\* The places of the nodes of x in left-to-right post-order.
RECURSIVE PostOrder(_, _)
PostOrder(x, path) ==
    IF IsBinary(x)
    THEN PostOrder(x.e[1], path \o <<0>>) \o PostOrder(x.e[2], path \o <<1>>) \o <<path>>
    ELSE <<path>>

\* The places eval has returned from so far, in order.
Returned ==
    LET rets == SelectSeq(trace, LAMBDA ev : ev[1] = "return")
    IN  [k \in 1 .. Len(rets) |-> rets[k][2]]

IsPrefix(a, b) == Len(a) <= Len(b) /\ a = SubSeq(b, 1, Len(a))

IsSuffix(a, b) == Len(a) <= Len(b) /\ a = SubSeq(b, Len(b) - Len(a) + 1, Len(b))

(* C8: a binary node evaluates its left child, then its right child, and   *)
(* only then computes its own result, whatever the left result is; so one  *)
(* call of eval evaluates every node exactly once, in left-to-right        *)
(* post-order.                                                             *)
C8_EagerPostOrder ==
    /\ IsPrefix(trace, Events(ast, <<>>))
    /\ (pc = "running" /\ Top.at = "body") =>
          /\ Top.n1 # NoVal
          /\ Top.n2 # NoVal
          /\ IsSuffix(Events(Top.node.e[1], Top.path \o <<0>>)
                        \o Events(Top.node.e[2], Top.path \o <<1>>), trace)
    /\ pc = "evaluated" =>
          /\ trace = Events(ast, <<>>)
          /\ Returned = PostOrder(ast, <<>>)

\* An And whose left operand is false, and an Or inside it whose left operand
\* is true, have evaluated their right operands all the same.
C8_Witness ==
    /\ pc = "evaluated"
    /\ ast = and(boolean(FALSE), or(boolean(TRUE), number(1)))
    /\ Returned = << <<0>>, <<1, 0>>, <<1, 1>>, <<1>>, <<>> >>

---------------------------------------------------------------------------
=============================================================================
